---- MODULE Spec2Model ----
(***************************************************************************)
(* A model of splink's settings validator (src/splink/settings_validator.py)*)
(*                                                                         *)
(* Strings that the code inspects character by character (column names,    *)
(* table qualifiers) are sequences of one-character strings, so that the   *)
(* regular expression of remove_suffix and the rendering of a column       *)
(* (col.sql()) are computed, not assumed.  Blocking-rule texts are only    *)
(* ever used as dictionary keys and as input of the SQL parser, and are    *)
(* TLA+ strings.                                                           *)
(*                                                                         *)
(* A call either returns a value, returns None, or raises:                 *)
(*   Return(v), None, Raise(e).                                            *)
(***************************************************************************)
EXTENDS Integers, Sequences, FiniteSets, TLC

\* ------------------------------------------------------------------ bounds
\* longest column name drawn for the string functions
MaxLen == 5
\* most columns of one input dataframe
MaxCols == 2
\* most column references handed to one check
MaxRefs == 2
\* most blocking rules of the settings dictionary
MaxRules == 2

\* ------------------------------------------------------------ call outcomes
None == [kind |-> "None"]
Return(v) == [kind |-> "return", value |-> v]
Raise(e) == [kind |-> "raise", exc |-> e]

\* ----------------------------------------------------------------- strings
Range(s) == {s[k] : k \in DOMAIN s}

\* the characters column names are drawn from in the string specification
Alphabet == {"n", "_", "l", "r", "|", "L"}

Strings(maxlen) == UNION {[1..n -> Alphabet] : n \in 0..maxlen}

\* the iteration orders a Python set S can be walked in
Enumerations(S) == {s \in [1..Cardinality(S) -> S] : Range(s) = S}

s_id == <<"i", "d">>
s_name == <<"n", "a", "m", "e">>
s_missing == <<"m", "i", "s", "s", "i", "n", "g">>
s_nonexistent == <<"n", "o", "n", "e", "x", "i", "s", "t", "e", "n", "t">>
s_l == <<"l">>
s_r == <<"r">>
s_x == <<"x">>
suffix_l == <<"_", "l">>
suffix_r == <<"_", "r">>

\* ------------------------------------------------------- syntax-tree nodes
\* A sqlglot Column node: its table qualifier (<<>> when args["table"] is
\* None), its identifier and whether the identifier is quoted.
Col(table, this) == [table |-> table, this |-> this, quoted |-> FALSE]
QuotedCol(table, this) == [table |-> table, this |-> this, quoted |-> TRUE]

\* col.table: the text of the qualifier, "" when there is none
Table(col) == col.table

\* col.sql(): qualifier, dot, identifier; a quoted identifier keeps its quotes
Sql(col) ==
    LET ident == IF col.quoted THEN <<"\"">> \o col.this \o <<"\"">> ELSE col.this
    IN  IF col.table = <<>> THEN ident ELSE col.table \o <<".">> \o ident

\* remove_quotes_from_identifiers: every identifier of the tree unquoted
remove_quotes_from_identifiers(tree) == [tree EXCEPT !.quoted = FALSE]

\* ------------------------------------------------------------ remove_suffix
\* re.sub("_[l|r]{1}$", "", c): the character class [l|r] holds the three
\* characters l, | and r; the match is anchored at the end of the string.
\* (Names hold no newline, before which $ would match as well.)
remove_suffix(c) ==
    IF Len(c) >= 2 /\ c[Len(c) - 1] = "_" /\ c[Len(c)] \in {"l", "|", "r"}
    THEN SubSeq(c, 1, Len(c) - 2)
    ELSE c

\* remove_prefix_and_suffix_from_column: clears the node's table qualifier in
\* place, then strips the suffix of its rendering.  The node as the call
\* leaves it is `tree`, the value returned is `ret`.
remove_prefix_and_suffix_from_column(col_syntax_tree) ==
    LET cleared == [col_syntax_tree EXCEPT !.table = <<>>]
    IN  [tree |-> cleared, ret |-> remove_suffix(Sql(cleared))]

\* ------------------------------------------------------------- InvalidCols
InvalidCols(invalid_type, invalid_columns) ==
    [invalid_type |-> invalid_type, invalid_columns |-> invalid_columns]

\* InvalidCols.is_valid: true when there ARE invalid columns
is_valid(invalid) == Len(invalid.invalid_columns) > 0

\* ------------------------------------------------------------------ state
VARIABLES
    input_tables,         \* linker._input_tables_dict: name -> columns (trees)
    uid,                  \* self.uid: the cleaned unique id column, a set
    cols_to_retain,       \* self.cols_to_retain: cleaned names, a set
    blocking_rules,       \* self.blocking_rules: a list of SQL strings
    cached,               \* the two cached properties, None until computed
    pc,                   \* "idle", or inside the loop of validate_blocking_rules
    br_index,             \* position of that loop in blocking_rules
    invalid_col_tracker,  \* the dictionary that loop fills
    cols,                 \* `cols` of the last validate_columns_in_sql_string,
                          \* as the checks left it
    op,                   \* the operation called last
    arg,                  \* its argument
    ret                   \* its outcome

vars == <<input_tables, uid, cols_to_retain, blocking_rules, cached, pc,
          br_index, invalid_col_tracker, cols, op, arg, ret>>

\* the order dict.values() walks the input tables in
DatasetOrder == <<"A", "B", "C">>

\* -------------------------------------------------------- schema catalogue
\* clean_list_of_column_names (as_tree=True): col_list holds the trees
\* (input_name_as_tree) of the columns; the result is a set of names.
clean_list_of_column_names(col_list) ==
    {Sql(remove_quotes_from_identifiers(tree)) : tree \in Range(col_list)}

\* input_columns_by_df: {table_name: cleaned column names}
input_columns_by_df_of(tables) ==
    [k \in DOMAIN tables |-> clean_list_of_column_names(tables[k])]

\* list(d.values())
Values(d) ==
    LET keys == SelectSeq(DatasetOrder, LAMBDA k : k \in DOMAIN d)
    IN  [n \in 1..Len(keys) |-> d[keys[n]]]

\* a variant of reduce that joins the sets instead of intersecting them
RECURSIVE reduce_or(_)
reduce_or(values) ==
    IF Len(values) = 0 THEN Raise("TypeError")
    ELSE IF Len(values) = 1 THEN Return(values[1])
    ELSE Return(reduce_or(SubSeq(values, 1, Len(values) - 1)).value
                \cup values[Len(values)])

\* reduce(and_, values), no initial value: a TypeError on an empty sequence,
\* the only element of a sequence of one, else the left fold of &.
RECURSIVE reduce_and(_)
reduce_and(values) ==
    IF Len(values) = 0 THEN Raise("TypeError")
    ELSE IF Len(values) = 1 THEN Return(values[1])
    ELSE Return(reduce_and(SubSeq(values, 1, Len(values) - 1)).value
                \cap values[Len(values)])

\* the property self.input_columns_by_df, through its cache
self_input_columns_by_df ==
    IF cached.input_columns_by_df.kind = "return"
    THEN cached.input_columns_by_df
    ELSE Return(input_columns_by_df_of(input_tables))

\* the property self.input_columns, through its cache
self_input_columns ==
    IF cached.input_columns.kind = "return"
    THEN cached.input_columns
    ELSE reduce_and(Values(self_input_columns_by_df.value))

\* the caches after self.input_columns was read: a property that raised
\* caches nothing, the property it read before raising is cached.
CachedAfterRead ==
    [input_columns_by_df |-> self_input_columns_by_df,
     input_columns |-> IF self_input_columns.kind = "return"
                       THEN self_input_columns ELSE cached.input_columns]

\* ------------------------------------------------------------------ checks
\* a variant that is content with the column in any one input table
check_column_exists_anywhere(column_name) ==
    \E k \in DOMAIN self_input_columns_by_df.value :
        column_name \in self_input_columns_by_df.value[k]

\* check_column_exists: column_name in self.input_columns
check_column_exists(column_name) == column_name \in self_input_columns.value

\* return_missing_columns: the list comprehension walks the set
\* cols_to_check in its iteration order `order`; the first membership test
\* reads self.input_columns and raises what that property raises.
return_missing_columns(cols_to_check, order) ==
    IF cols_to_check # {} /\ self_input_columns.kind = "raise"
    THEN self_input_columns
    ELSE Return(InvalidCols("invalid_cols",
                SelectSeq(order, LAMBDA col : ~check_column_exists(col))))

\* whether return_missing_columns reads self.input_columns
ReadsInputColumns(cols_to_check) == cols_to_check # {}

\* the set built by clean_and_return_missing_columns
CanonicalNames(refs) ==
    {remove_prefix_and_suffix_from_column(refs[k]).ret : k \in DOMAIN refs}

\* clean_and_return_missing_columns: every node of its argument loses its
\* table qualifier (`cols` is the argument as the call leaves it).
clean_and_return_missing_columns(refs, order) ==
    [ret |-> return_missing_columns(CanonicalNames(refs), order),
     cols |-> [k \in DOMAIN refs |->
                 remove_prefix_and_suffix_from_column(refs[k]).tree]]

\* validate_table_name: True is "invalid"; col.table is "" without qualifier
validate_table_name(col) == Table(col) \notin {s_l, s_r}

\* validate_table_names: the renderings of the flagged references, in order
validate_table_names(refs) ==
    [ret |-> Return(InvalidCols("invalid_table_pref",
                [k \in 1..Len(SelectSeq(refs, validate_table_name)) |->
                    Sql(SelectSeq(refs, validate_table_name)[k])])),
     cols |-> refs]

\* --------------------------------------------------------------- SQL parser
\* sqlglot.parse_one followed by find_all(exp.Column), on the rule texts of
\* the model: the Column nodes of the text, or a ParseError.
R_ok == "l.name_l = r.name_r"
R_alias == "x.name_l = r.name_r"
R_missing == "l.missing_l = r.missing_r"
R_both == "x.missing_l = r.\"name_r\""
R_bare == "name_l = name_r"
R_const == "1 = 1"
R_where == "WHERE"

RuleTexts == {R_ok, R_alias, R_missing, R_both, R_bare, R_const, R_where}

parse_one(sql_string) ==
    CASE sql_string = R_ok ->
           Return(<<Col(s_l, s_name \o suffix_l), Col(s_r, s_name \o suffix_r)>>)
      [] sql_string = R_alias ->
           Return(<<Col(s_x, s_name \o suffix_l), Col(s_r, s_name \o suffix_r)>>)
      [] sql_string = R_missing ->
           Return(<<Col(s_l, s_missing \o suffix_l),
                    Col(s_r, s_missing \o suffix_r)>>)
      [] sql_string = R_both ->
           Return(<<Col(s_x, s_missing \o suffix_l),
                    QuotedCol(s_r, s_name \o suffix_r)>>)
      [] sql_string = R_bare ->
           Return(<<Col(<<>>, s_name \o suffix_l), Col(<<>>, s_name \o suffix_r)>>)
      [] sql_string = R_const -> Return(<<>>)
      [] OTHER -> Raise("ParseError")

\* the list `cols` of validate_columns_in_sql_string
extract_cols(syntax_tree) ==
    [k \in DOMAIN syntax_tree |-> remove_quotes_from_identifiers(syntax_tree[k])]

\* ---------------------------------------------- validate_columns_in_sql_string
\* checks are named; a check is applied to a list and answers with its
\* outcome and with that list as it leaves it
apply_check(check, refs, order) ==
    IF check = "clean_and_return_missing_columns"
    THEN clean_and_return_missing_columns(refs, order)
    ELSE validate_table_names(refs)

\* a variant of deepcopy that hands out the list itself
same_object(x) == [same |-> TRUE, val |-> x]

\* deepcopy(cols): a new list of new nodes, equal to the old
deepcopy(x) == [same |-> FALSE, val |-> x]

\* [check(deepcopy(cols)) for check in checks]: the outcomes in order, and
\* `cols` as the checks leave it; a check that raises ends the comprehension
RECURSIVE run_checks(_, _, _)
run_checks(refs, checks, order) ==
    IF checks = <<>> THEN [ret |-> Return(<<>>), cols |-> refs]
    ELSE LET copy == deepcopy(refs)
             out == apply_check(Head(checks), copy.val, order)
             after == IF copy.same THEN out.cols ELSE refs
         IN  IF out.ret.kind = "raise" THEN [ret |-> out.ret, cols |-> after]
             ELSE LET rest == run_checks(after, Tail(checks), order)
                  IN  IF rest.ret.kind = "raise" THEN rest
                      ELSE [ret |-> Return(<<out.ret.value>> \o rest.ret.value),
                            cols |-> rest.cols]

\* a variant that reports every check's result, valid or not
validate_columns_in_sql_string_unfiltered(sql_string, checks, order) ==
    LET syntax_tree == parse_one(sql_string)
    IN  IF syntax_tree.kind = "raise" THEN [ret |-> None, cols |-> <<>>]
        ELSE run_checks(extract_cols(syntax_tree.value), checks, order)

\* a variant without the try/except around the parser
validate_columns_in_sql_string_no_except(sql_string, checks, order) ==
    LET syntax_tree == parse_one(sql_string)
    IN  IF syntax_tree.kind = "raise" THEN [ret |-> syntax_tree, cols |-> <<>>]
        ELSE LET ran == run_checks(extract_cols(syntax_tree.value), checks, order)
             IN  IF ran.ret.kind = "raise" THEN ran
                 ELSE [ret |-> Return(SelectSeq(ran.ret.value, is_valid)),
                       cols |-> ran.cols]

\* validate_columns_in_sql_string: None when the text does not parse, else
\* the results of the checks that found something
validate_columns_in_sql_string(sql_string, checks, order) ==
    LET syntax_tree == parse_one(sql_string)
    IN  IF syntax_tree.kind = "raise" THEN [ret |-> None, cols |-> <<>>]
        ELSE LET ran == run_checks(extract_cols(syntax_tree.value), checks, order)
             IN  IF ran.ret.kind = "raise" THEN ran
                 ELSE [ret |-> Return(SelectSeq(ran.ret.value, is_valid)),
                       cols |-> ran.cols]

\* a variant that strips the side suffix of the configured names first
validate_settings_column_stripping(settings_id, names, order) ==
    LET stripped == {remove_suffix(n) : n \in names}
        missing_cols == return_missing_columns(stripped,
                            CHOOSE o \in Enumerations(stripped) : TRUE)
    IN  IF missing_cols.kind = "raise" THEN missing_cols
        ELSE IF is_valid(missing_cols.value)
        THEN Return(<<settings_id, missing_cols.value>>)
        ELSE None

\* validate_settings_column: (settings_id, InvalidCols) when a name is missing
validate_settings_column(settings_id, names, order) ==
    LET missing_cols == return_missing_columns(names, order)
    IN  IF missing_cols.kind = "raise" THEN missing_cols
        ELSE IF is_valid(missing_cols.value)
        THEN Return(<<settings_id, missing_cols.value>>)
        ELSE None

\* the checks validate_blocking_rules passes, in its order
Checks == <<"clean_and_return_missing_columns", "validate_table_names">>

\* the iteration orders of the set the missing-column check builds for a rule
IterationOrders(sql_string) ==
    IF parse_one(sql_string).kind = "raise" THEN {<<>>}
    ELSE Enumerations(CanonicalNames(extract_cols(parse_one(sql_string).value)))

\* ---------------------------------------------------------- initial states
\* the validator before any call: nothing cached, no loop running
Fresh ==
    /\ cached = [input_columns_by_df |-> None, input_columns |-> None]
    /\ pc = "idle"
    /\ br_index = 1
    /\ invalid_col_tracker = <<>>
    /\ cols = <<>>
    /\ op = "none"
    /\ ret = None

\* a linker without tables, columns to check or rules
NoLinker ==
    /\ input_tables = <<>>
    /\ uid = {}
    /\ cols_to_retain = {}
    /\ blocking_rules = <<>>

\* column lists of the input dataframes
Schemas ==
    {<<Col(<<>>, s_id), Col(<<>>, s_name)>>,
     <<QuotedCol(<<>>, s_name)>>}

\* the input-table dictionaries of the validator specifications
Catalogs == UNION {[D -> Schemas] : D \in SUBSET {"A", "B"}}

\* ------------------------------------------- specification: string functions
TableQualifiers == {<<>>, s_l, s_r, s_x}

InitStr ==
    /\ Fresh
    /\ NoLinker
    /\ arg \in {Col(t, s) : t \in TableQualifiers, s \in Strings(MaxLen)}

\* remove_suffix(c), c the identifier of the node
CallRemoveSuffix ==
    /\ op' = "remove_suffix"
    /\ ret' = Return(remove_suffix(arg.this))
    /\ UNCHANGED <<input_tables, uid, cols_to_retain, blocking_rules, cached,
                   pc, br_index, invalid_col_tracker, cols, arg>>

\* remove_prefix_and_suffix_from_column(col_syntax_tree); cols is the node as
\* the call leaves it
CallRemovePrefixAndSuffix ==
    /\ op' = "remove_prefix_and_suffix_from_column"
    /\ ret' = Return(remove_prefix_and_suffix_from_column(arg).ret)
    /\ cols' = <<remove_prefix_and_suffix_from_column(arg).tree>>
    /\ UNCHANGED <<input_tables, uid, cols_to_retain, blocking_rules, cached,
                   pc, br_index, invalid_col_tracker, arg>>

NextStr == CallRemoveSuffix \/ CallRemovePrefixAndSuffix

SpecStr == InitStr /\ [][NextStr]_vars

\* ------------------------------------------- specification: schema catalogue
ColumnPool == {Col(<<>>, s_id), Col(<<>>, s_name), QuotedCol(<<>>, s_name)}

ColumnLists == UNION {[1..n -> ColumnPool] : n \in 0..MaxCols}

InitCatalog ==
    /\ Fresh
    /\ input_tables \in UNION {[D -> ColumnLists] : D \in SUBSET Range(DatasetOrder)}
    /\ uid = {}
    /\ cols_to_retain = {}
    /\ blocking_rules = <<>>
    /\ arg = <<>>

\* a read of the cached property input_columns_by_df
ReadInputColumnsByDf ==
    /\ op' = "input_columns_by_df"
    /\ ret' = self_input_columns_by_df
    /\ cached' = [cached EXCEPT !.input_columns_by_df = self_input_columns_by_df]
    /\ UNCHANGED <<input_tables, uid, cols_to_retain, blocking_rules, pc,
                   br_index, invalid_col_tracker, cols, arg>>

\* a read of the cached property input_columns
ReadInputColumns ==
    /\ op' = "input_columns"
    /\ ret' = self_input_columns
    /\ cached' = CachedAfterRead
    /\ UNCHANGED <<input_tables, uid, cols_to_retain, blocking_rules, pc,
                   br_index, invalid_col_tracker, cols, arg>>

NextCatalog == ReadInputColumnsByDf \/ ReadInputColumns

SpecCatalog == InitCatalog /\ [][NextCatalog]_vars

\* ---------------------------------------------------- specification: checks
RefNames == {s_id, s_name \o suffix_l, s_missing \o suffix_r}

RefPool == {Col(t, n) : t \in TableQualifiers, n \in RefNames}

RefLists == UNION {[1..n -> RefPool] : n \in 0..MaxRefs}

InitChecks ==
    /\ Fresh
    /\ input_tables \in Catalogs
    /\ uid = {}
    /\ cols_to_retain = {}
    /\ blocking_rules = <<>>
    /\ arg \in RefLists

\* validate_table_names(cols)
CallValidateTableNames ==
    /\ op' = "validate_table_names"
    /\ ret' = validate_table_names(arg).ret
    /\ cols' = validate_table_names(arg).cols
    /\ UNCHANGED <<input_tables, uid, cols_to_retain, blocking_rules, cached,
                   pc, br_index, invalid_col_tracker, arg>>

\* clean_and_return_missing_columns(cols)
CallCleanAndReturnMissingColumns ==
    \E order \in Enumerations(CanonicalNames(arg)) :
        /\ op' = "clean_and_return_missing_columns"
        /\ ret' = clean_and_return_missing_columns(arg, order).ret
        /\ cols' = clean_and_return_missing_columns(arg, order).cols
        /\ cached' = IF ReadsInputColumns(CanonicalNames(arg))
                     THEN CachedAfterRead ELSE cached
        /\ UNCHANGED <<input_tables, uid, cols_to_retain, blocking_rules, pc,
                       br_index, invalid_col_tracker, arg>>

NextChecks == CallValidateTableNames \/ CallCleanAndReturnMissingColumns

SpecChecks == InitChecks /\ [][NextChecks]_vars

\* ------------------------------------------------- specification: validator
UidPool == {Col(<<>>, s_id), QuotedCol(<<>>, s_name \o suffix_l)}

RetainPool ==
    {<<>>,
     <<Col(<<>>, s_nonexistent)>>,
     <<Col(<<>>, s_id), QuotedCol(<<>>, s_name \o suffix_r)>>}

RuleLists == UNION {[1..n -> RuleTexts] : n \in 0..MaxRules}

\* SettingsValidator.__init__
Init ==
    /\ Fresh
    /\ input_tables \in Catalogs
    /\ \E tree \in UidPool : uid = clean_list_of_column_names(<<tree>>)
    /\ \E col_list \in RetainPool :
           cols_to_retain = clean_list_of_column_names(col_list)
    /\ blocking_rules \in RuleLists
    /\ arg = <<>>

\* d.update({k: v})
DictUpdate(d, k, v) ==
    [x \in DOMAIN d \cup {k} |-> IF x = k THEN v ELSE d[x]]

\* the property validate_uid
ValidateUid ==
    /\ pc = "idle"
    /\ \E order \in Enumerations(uid) :
           ret' = validate_settings_column("unique_id_column_name", uid, order)
    /\ op' = "validate_uid"
    /\ arg' = uid
    /\ cached' = IF ReadsInputColumns(uid) THEN CachedAfterRead ELSE cached
    /\ UNCHANGED <<input_tables, uid, cols_to_retain, blocking_rules, pc,
                   br_index, invalid_col_tracker, cols>>

\* the property validate_cols_to_retain
ValidateColsToRetain ==
    /\ pc = "idle"
    /\ \E order \in Enumerations(cols_to_retain) :
           ret' = validate_settings_column("additional_columns_to_retain",
                                           cols_to_retain, order)
    /\ op' = "validate_cols_to_retain"
    /\ arg' = cols_to_retain
    /\ cached' = IF ReadsInputColumns(cols_to_retain)
                 THEN CachedAfterRead ELSE cached
    /\ UNCHANGED <<input_tables, uid, cols_to_retain, blocking_rules, pc,
                   br_index, invalid_col_tracker, cols>>

\* the property validate_blocking_rules is entered: an empty tracker
ValidateBlockingRulesBegin ==
    /\ pc = "idle"
    /\ pc' = "validate_blocking_rules"
    /\ op' = "validate_blocking_rules"
    /\ br_index' = 1
    /\ invalid_col_tracker' = <<>>
    /\ ret' = None
    /\ arg' = <<>>
    /\ cols' = <<>>
    /\ UNCHANGED <<input_tables, uid, cols_to_retain, blocking_rules, cached>>

\* one turn of its loop: validate_columns_in_sql_string on the next rule,
\* then the update of the tracker; an exception leaves the property.  While
\* the loop runs, arg is the rule of the last turn, ret the outcome of its
\* validate_columns_in_sql_string and cols that call's list.
ValidateBlockingRulesStep ==
    /\ pc = "validate_blocking_rules"
    /\ br_index <= Len(blocking_rules)
    /\ LET br == blocking_rules[br_index]
       IN  \E order \in IterationOrders(br) :
             LET invalid_br_cols ==
                     validate_columns_in_sql_string(br, Checks, order)
             IN  /\ arg' = br
                 /\ ret' = invalid_br_cols.ret
                 /\ cols' = invalid_br_cols.cols
                 /\ cached' = IF /\ parse_one(br).kind = "return"
                                 /\ ReadsInputColumns(CanonicalNames(
                                        extract_cols(parse_one(br).value)))
                              THEN CachedAfterRead ELSE cached
                 /\ IF invalid_br_cols.ret.kind = "raise"
                    THEN /\ pc' = "idle"
                         /\ UNCHANGED <<br_index, invalid_col_tracker>>
                    ELSE /\ pc' = pc
                         /\ br_index' = br_index + 1
                         /\ invalid_col_tracker' =
                              IF /\ invalid_br_cols.ret.kind = "return"
                                 /\ invalid_br_cols.ret.value # <<>>
                              THEN DictUpdate(invalid_col_tracker, br,
                                              invalid_br_cols.ret.value)
                              ELSE invalid_col_tracker
    /\ UNCHANGED <<input_tables, uid, cols_to_retain, blocking_rules, op>>

\* the loop is over: the tracker is returned
ValidateBlockingRulesReturn ==
    /\ pc = "validate_blocking_rules"
    /\ br_index > Len(blocking_rules)
    /\ pc' = "idle"
    /\ ret' = Return(invalid_col_tracker)
    /\ UNCHANGED <<input_tables, uid, cols_to_retain, blocking_rules, cached,
                   br_index, invalid_col_tracker, cols, op, arg>>

Next ==
    \/ ValidateUid
    \/ ValidateColsToRetain
    \/ ValidateBlockingRulesBegin
    \/ ValidateBlockingRulesStep
    \/ ValidateBlockingRulesReturn

Spec == Init /\ [][Next]_vars

\* the dictionary validate_blocking_rules returns for a list of rules when
\* every set is walked in one fixed order, or what it raises
RECURSIVE validate_blocking_rules_from(_, _)
validate_blocking_rules_from(rules, tracker) ==
    IF rules = <<>> THEN Return(tracker)
    ELSE LET br == Head(rules)
             invalid_br_cols ==
                 validate_columns_in_sql_string(br, Checks,
                     CHOOSE order \in IterationOrders(br) : TRUE).ret
         IN  IF invalid_br_cols.kind = "raise" THEN invalid_br_cols
             ELSE validate_blocking_rules_from(Tail(rules),
                      IF invalid_br_cols.kind = "return" /\ invalid_br_cols.value # <<>>
                      THEN DictUpdate(tracker, br, invalid_br_cols.value)
                      ELSE tracker)

\* =================================================================== claims
\* the names of a column list with their quotes removed
CleanedNames(col_list) == {col_list[k].this : k \in DOMAIN col_list}

\* the names that every input table has
CommonColumns ==
    {n \in UNION {CleanedNames(input_tables[k]) : k \in DOMAIN input_tables} :
        \A k \in DOMAIN input_tables : n \in CleanedNames(input_tables[k])}

NoDuplicates(list) == Cardinality(Range(list)) = Len(list)

\* a list of InvalidCols with each list of columns read as a set
AsSets(invalid_tree) ==
    [k \in DOMAIN invalid_tree |->
        [invalid_type |-> invalid_tree[k].invalid_type,
         invalid_columns |-> Range(invalid_tree[k].invalid_columns)]]

\* an outcome of validate_blocking_rules with the lists of columns read as sets
OutcomeAsSets(outcome) ==
    IF outcome.kind = "return"
    THEN Return([k \in DOMAIN outcome.value |-> AsSets(outcome.value[k])])
    ELSE outcome

Parses(sql_string) == parse_one(sql_string).kind = "return"

Reverse(list) == [k \in DOMAIN list |-> list[Len(list) + 1 - k]]

EndsWith(c, suffix) ==
    Len(c) >= Len(suffix) /\ SubSeq(c, Len(c) - Len(suffix) + 1, Len(c)) = suffix

DropLast2(c) == SubSeq(c, 1, Len(c) - 2)

\* C1: validate_table_names flags a reference if and only if it has a
\* non-empty table qualifier other than "l" and "r"; a reference without a
\* qualifier is never flagged.
C1_TableAliasFlagsOnlyBadQualifiers ==
    op = "validate_table_names" =>
        /\ ret.kind = "return"
        /\ ret.value.invalid_type = "invalid_table_pref"
        /\ \A k \in DOMAIN arg :
             Sql(arg[k]) \in Range(ret.value.invalid_columns)
               <=> (arg[k].table # <<>> /\ arg[k].table \notin {s_l, s_r})

\* C2: with the common-columns set in existence, clean_and_return_missing_columns
\* returns an empty list if and only if every canonicalized reference is in
\* the common-columns set, and otherwise exactly the canonical names that
\* are not in it.
C2_MissingColumnsExact ==
    (op = "clean_and_return_missing_columns" /\ DOMAIN input_tables # {}) =>
        /\ ret.kind = "return"
        /\ ret.value.invalid_type = "invalid_cols"
        /\ LET canon == {remove_prefix_and_suffix_from_column(arg[k]).ret :
                            k \in DOMAIN arg}
               invalid == ret.value.invalid_columns
           IN  /\ invalid = <<>> <=> canon \subseteq CommonColumns
               /\ Range(invalid) = canon \ CommonColumns
               /\ NoDuplicates(invalid)

\* C2 witness: a call on two references, one canonical name common, one not
C2_Witness ==
    /\ op = "clean_and_return_missing_columns"
    /\ DOMAIN input_tables = {"A", "B"}
    /\ Len(arg) = 2
    /\ ret.kind = "return"
    /\ Len(ret.value.invalid_columns) = 1
    /\ \E k \in DOMAIN arg :
         /\ arg[k].table # <<>>
         /\ remove_prefix_and_suffix_from_column(arg[k]).ret \in CommonColumns
         /\ remove_prefix_and_suffix_from_column(arg[k]).ret # arg[k].this

\* C3: for a non-empty collection of datasets, input_columns is the
\* intersection of the cleaned column sets of all of them; with one dataset
\* it is that dataset's cleaned column set, and it is empty when the
\* datasets share no column.
C3_InputColumnsIsIntersection ==
    (op = "input_columns" /\ DOMAIN input_tables # {}) =>
        /\ ret = Return(CommonColumns)
        /\ \A k \in DOMAIN input_tables :
             DOMAIN input_tables = {k} => ret.value = CleanedNames(input_tables[k])
        /\ (\A n \in ret.value : \A k \in DOMAIN input_tables :
                n \in CleanedNames(input_tables[k]))
        /\ ((~ \E n \in CleanedNames(input_tables[CHOOSE k \in DOMAIN input_tables : TRUE]) :
                \A k \in DOMAIN input_tables : n \in CleanedNames(input_tables[k]))
             => ret.value = {})

\* C3 witness: three datasets that share a column one of them writes quoted,
\* and a column that not all of them have
C3_Witness ==
    /\ op = "input_columns"
    /\ Cardinality(DOMAIN input_tables) = 3
    /\ ret.kind = "return"
    /\ ret.value = {s_name}
    /\ \E k \in DOMAIN input_tables : s_id \in CleanedNames(input_tables[k])
    /\ \E k \in DOMAIN input_tables : \E j \in DOMAIN input_tables[k] :
         input_tables[k][j].quoted

\* the settings id of a scalar validation
SettingsId ==
    IF op = "validate_uid" THEN "unique_id_column_name"
    ELSE "additional_columns_to_retain"

\* C4: with the common-columns set in existence, validate_settings_column
\* returns (settings_id, InvalidCols of kind invalid_cols listing exactly the
\* names that are not common) when a name is missing and None when none is;
\* the names are compared as configured, qualifier and suffix unstripped.
C4_ValidateScalarOnlyWhenInvalid ==
    (op \in {"validate_uid", "validate_cols_to_retain"}
     /\ DOMAIN input_tables # {}) =>
        LET missing == arg \ CommonColumns
        IN  IF missing # {}
            THEN /\ ret.kind = "return"
                 /\ ret.value[1] = SettingsId
                 /\ ret.value[2].invalid_type = "invalid_cols"
                 /\ Range(ret.value[2].invalid_columns) = missing
                 /\ NoDuplicates(ret.value[2].invalid_columns)
            ELSE ret = None

\* C4 witness: columns to retain of which one is common and one, with a side
\* suffix whose base name is common, is reported
C4_Witness ==
    /\ op = "validate_cols_to_retain"
    /\ DOMAIN input_tables # {}
    /\ s_name \in CommonColumns
    /\ s_id \in CommonColumns
    /\ arg = {s_id, s_name \o suffix_r}
    /\ ret = Return(<<"additional_columns_to_retain",
                      InvalidCols("invalid_cols", <<s_name \o suffix_r>>)>>)

\* the canonical names of a rule's references that are not common
MissingOf(sql_string) ==
    CanonicalNames(extract_cols(parse_one(sql_string).value)) \ CommonColumns

\* the result of the table-alias check on a rule's references as extracted
TableResultOf(sql_string) ==
    validate_table_names(extract_cols(parse_one(sql_string).value)).ret.value

\* validate_blocking_rules has returned its dictionary
BlockingRulesReturned ==
    pc = "idle" /\ op = "validate_blocking_rules" /\ ret.kind = "return"

\* C5: a rule is a key of the dictionary validate_blocking_rules returns if
\* and only if it parsed and one of the two checks found something; its value
\* holds every check result that is non-empty, both when both are, and no
\* InvalidCols with an empty list.
C5_TrackerHoldsExactlyFailingRules ==
    BlockingRulesReturned =>
        /\ DOMAIN ret.value \subseteq Range(blocking_rules)
        /\ \A br \in Range(blocking_rules) :
             /\ br \in DOMAIN ret.value
                  <=> (Parses(br) /\ (MissingOf(br) # {}
                                      \/ is_valid(TableResultOf(br))))
             /\ br \in DOMAIN ret.value =>
                  LET reported == ret.value[br]
                  IN  /\ \A k \in DOMAIN reported : is_valid(reported[k])
                      /\ Len(reported) = (IF MissingOf(br) # {} THEN 1 ELSE 0)
                                         + (IF is_valid(TableResultOf(br)) THEN 1 ELSE 0)
                      /\ MissingOf(br) # {} =>
                           \E k \in DOMAIN reported :
                             /\ reported[k].invalid_type = "invalid_cols"
                             /\ Range(reported[k].invalid_columns) = MissingOf(br)
                      /\ is_valid(TableResultOf(br)) =>
                           \E k \in DOMAIN reported :
                             reported[k] = TableResultOf(br)

\* C5 witness: a returned dictionary with a rule that failed both checks
\* and whose list had a parsed rule with references that is no key
C5_Witness ==
    /\ BlockingRulesReturned
    /\ \E br \in DOMAIN ret.value : Len(ret.value[br]) = 2
    /\ \E br \in Range(blocking_rules) :
         /\ Parses(br)
         /\ parse_one(br).value # <<>>
         /\ br \notin DOMAIN ret.value

\* C6: rules that do not parse make validate_blocking_rules raise nothing
\* and add no entry, and every other rule is validated and recorded as it
\* would be were the unparseable rules absent.
C6_UnparseableRulesAreSkipped ==
    (pc = "idle" /\ op = "validate_blocking_rules") =>
        /\ ret.kind = "raise" => ret.exc # "ParseError"
        /\ DOMAIN input_tables # {} => ret.kind = "return"
        /\ ret.kind = "return" =>
             \A br \in Range(blocking_rules) :
               ~Parses(br) => br \notin DOMAIN ret.value
        /\ OutcomeAsSets(ret)
             = OutcomeAsSets(validate_blocking_rules_from(
                   SelectSeq(blocking_rules, Parses), <<>>))

\* C6 witness: a rule list with a rule that does not parse before a rule
\* that is recorded
C6_Witness ==
    /\ BlockingRulesReturned
    /\ Len(blocking_rules) = 2
    /\ ~Parses(blocking_rules[1])
    /\ blocking_rules[2] \in DOMAIN ret.value

\* C7: with an empty dataset mapping the common-columns set is empty, so
\* validate_settings_column and validate_blocking_rules raise nothing and
\* every checked column is reported missing; with an empty rule list
\* validate_blocking_rules returns an empty dictionary.
C7_DegenerateInputsDoNotRaise ==
    /\ (pc = "idle" /\ DOMAIN input_tables = {}
        /\ op \in {"validate_uid", "validate_cols_to_retain"}) =>
           IF arg = {} THEN ret = None
           ELSE /\ ret.kind = "return"
                /\ Range(ret.value[2].invalid_columns) = arg
    /\ (pc = "idle" /\ DOMAIN input_tables = {}
        /\ op = "validate_blocking_rules") =>
           /\ ret.kind = "return"
           /\ \A br \in Range(blocking_rules) :
                (Parses(br) /\ parse_one(br).value # <<>>) =>
                    /\ br \in DOMAIN ret.value
                    /\ \E k \in DOMAIN ret.value[br] :
                         Range(ret.value[br][k].invalid_columns)
                           = CanonicalNames(extract_cols(parse_one(br).value))
    /\ (pc = "idle" /\ op = "validate_blocking_rules" /\ blocking_rules = <<>>) =>
           ret = Return(<<>>)

\* a side suffix as the specification words it: _l or _r
HasSideSuffix(c) == EndsWith(c, suffix_l) \/ EndsWith(c, suffix_r)

\* C8: remove_prefix_and_suffix_from_column strips the table qualifier and
\* exactly one trailing _l or _r: a name that ends in one loses it and
\* nothing more, whatever its qualifier, and a bare base name is returned
\* as it is.
C8_CanonStripsQualifierAndOneSuffix ==
    op = "remove_prefix_and_suffix_from_column" =>
        /\ cols[1].table = <<>>
        /\ ret = Return(IF HasSideSuffix(arg.this) THEN DropLast2(arg.this)
                        ELSE arg.this)

\* a side suffix with the letter in either case
HasSideSuffixAnyCase(c) ==
    \/ HasSideSuffix(c)
    \/ EndsWith(c, <<"_", "L">>)
    \/ EndsWith(c, <<"_", "R">>)

\* C9: remove_suffix removes the last two characters if and only if they are
\* _l or _r, the letter in either case; a name ending in an underscore and
\* any other character is returned unchanged.
C9_RemoveSuffixExactTokens ==
    op = "remove_suffix" =>
        ret = Return(IF HasSideSuffixAnyCase(arg.this) THEN DropLast2(arg.this)
                     ELSE arg.this)

\* a turn of the loop of validate_blocking_rules has run the checks of a rule
ChecksHaveRun ==
    /\ pc = "validate_blocking_rules"
    /\ br_index > 1
    /\ ret.kind = "return"

\* the InvalidCols of a list, their columns read as sets
ReportedSet(invalid_tree) == Range(AsSets(invalid_tree))

\* C10: each check works on its own copy: after the checks of a rule have
\* run, the extracted list is as it was extracted, the table-alias result is
\* the one of the list as extracted although the missing-column check
\* cleared every qualifier of its argument, and the checks in the other
\* order report the same set of results.
C10_ChecksSeeTheExtractedList ==
    ChecksHaveRun =>
        LET extracted == extract_cols(parse_one(arg).value)
            on_extracted == validate_table_names(extracted).ret.value
        IN  /\ cols = extracted
            /\ is_valid(on_extracted) => on_extracted \in Range(ret.value)
            /\ \A k \in DOMAIN ret.value :
                 ret.value[k].invalid_type = "invalid_table_pref"
                   => ret.value[k] = on_extracted
            /\ \A order \in IterationOrders(arg) :
                 ReportedSet(ret.value)
                   = ReportedSet(validate_columns_in_sql_string(
                                     arg, Reverse(Checks), order).ret.value)

\* C10 witness: the checks have run on a rule with qualified references of
\* which the missing-column check reported one and the table-alias check one
C10_Witness ==
    /\ ChecksHaveRun
    /\ arg = R_both
    /\ Len(ret.value) = 2
    /\ \E k \in DOMAIN cols : cols[k].table = s_r
    /\ clean_and_return_missing_columns(cols, <<>>).cols # cols

====
